---- MODULE Spec2Model ----
(***************************************************************************)
(* Hybrid stepper (Simulator) and result store (SimulationResult) of       *)
(* src/simtree/simulator.py, and of the model library the Evaluator, the   *)
(* states of a System (src/modypy/model/states.py) and the ZeroOrderHold   *)
(* block (src/modypy/blocks/discrete.py).                                  *)
(*                                                                         *)
(* Time is counted in integer ticks.  One tick is the smallest time        *)
(* difference the model distinguishes; tolerances (xtol) are even numbers  *)
(* of ticks so that xtol/2 is again a tick count.  The state vector has    *)
(* one component, an integer.  Python's None is the string "None" where a  *)
(* message is expected and the empty set where an event index is expected. *)
(***************************************************************************)
EXTENDS Integers, Sequences, FiniteSets, TLC

VARIABLES
    system,                  \* Simulator.system / SimulationResult.system
    tbound,                  \* Simulator.tbound
    initial_condition,       \* the initial_condition argument of Simulator.__init__
    rootfinder_constructor,  \* Simulator.rootfinder_constructor
    rootfinder_options,      \* Simulator.rootfinder_options
    integrator,              \* Simulator.integrator (an OdeSolver-like object)
    result,                  \* Simulator.result (a SimulationResult)
    mode,                    \* "idle": between calls, "run": inside run(), "store": store only
    ret,                     \* outcome of the last step() call
    run_ret,                 \* outcome of the last run() call
    run_trace,               \* outcomes of the step() calls made by the current/last run()
    last,                    \* what the last step() call did (history)
    calls,                   \* user-function invocations made by the last step() (history)
    log,                     \* every row handed to SimulationResult.append, in order (history)
    pending,                 \* candidate crossings seen but not recorded so far (history)
    feed,                    \* input generator of the store-only specification
    steps_none,              \* number of step() calls that returned None (history)
    evaluation,              \* an Evaluator working on one snapshot (modypy.model.evaluation)
    model,                   \* a modypy System under construction: its states
    hold                     \* a ZeroOrderHold block in a running system

\* the simulator and its result store
simVars == <<system, tbound, initial_condition, rootfinder_constructor,
             rootfinder_options, integrator, result, mode, ret, run_ret,
             run_trace, last, calls, log, pending, feed, steps_none>>

\* the model library
libVars == <<evaluation, model, hold>>

vars == <<simVars, libVars>>

(***************************************************************************)
(* Bounds of the model.                                                    *)
(***************************************************************************)
\* largest end time (ticks) a simulation is constructed with
MaxT == 4
\* largest advance (ticks) of one integrator step
MaxStep == 2
\* number of rows appended in the store-only specification
MaxAppend == 34

(***************************************************************************)
(* Program constants.                                                      *)
(***************************************************************************)
INITIAL_RESULT_SIZE == 16
RESULT_SIZE_EXTENSION == 16

\* DEFAULT_ROOTFINDER_OPTIONS['xtol'], 1.E-12, is two ticks
DEFAULT_XTOL == 2
DEFAULT_ROOTFINDER == "brentq"
DEFAULT_ROOTFINDER_OPTIONS == [xtol |-> DEFAULT_XTOL, maxiter |-> "1E3"]

None == "None"

\* np.empty leaves the new block unwritten: it holds whatever was in memory.
\* Garbage values are negative; every value the simulator writes is >= 0.
Garbage == {-1000, -1001}

Max(a, b) == IF a >= b THEN a ELSE b
Min(a, b) == IF a <= b THEN a ELSE b
Abs(a) == IF a >= 0 THEN a ELSE -a

(***************************************************************************)
(* numpy helpers.                                                          *)
(***************************************************************************)
\* np.sign
sign(v) == IF v > 0 THEN 1 ELSE IF v < 0 THEN -1 ELSE 0

\* np.empty(n): n rows of whatever the allocator returns (g)
np_empty(n, g) == [i \in 1..n |-> g]

\* np.zeros((n, num_events), dtype=bool)
np_zeros(n, num_events) == [i \in 1..n |-> [e \in 0..(num_events - 1) |-> FALSE]]

\* np.r_[a, b]: row-wise concatenation
np_r(a, b) == a \o b

(***************************************************************************)
(* SimulationResult.                                                       *)
(***************************************************************************)
\* SimulationResult.__init__
SimulationResult(sys, g) ==
    [_t          |-> np_empty(INITIAL_RESULT_SIZE, g),
     _state      |-> np_empty(INITIAL_RESULT_SIZE, g),
     _output     |-> np_empty(INITIAL_RESULT_SIZE, g),
     _events     |-> np_zeros(INITIAL_RESULT_SIZE, sys.num_events),
     current_idx |-> 0]

\* the accessor t returning the whole backing buffer
result_t_whole(res) == res._t

\* the accessors: slices [0:current_idx] of the backing buffers
result_t(res) == SubSeq(res._t, 1, res.current_idx)
result_state(res) == SubSeq(res._state, 1, res.current_idx)
result_output(res) == SubSeq(res._output, 1, res.current_idx)
result_events(res) == SubSeq(res._events, 1, res.current_idx)

\* extend_space allocating the larger buffers without carrying the rows over
extend_space_fresh(res, sys, g) ==
    [res EXCEPT
        !._t      = np_empty(Len(res._t) + RESULT_SIZE_EXTENSION, g),
        !._state  = np_empty(Len(res._state) + RESULT_SIZE_EXTENSION, g),
        !._output = np_empty(Len(res._output) + RESULT_SIZE_EXTENSION, g),
        !._events = np_zeros(Len(res._events) + RESULT_SIZE_EXTENSION, sys.num_events)]

\* extend_space leaving the new indicator rows set
extend_space_unzeroed(res, sys, g) ==
    [res EXCEPT
        !._t      = np_r(res._t, np_empty(RESULT_SIZE_EXTENSION, g)),
        !._state  = np_r(res._state, np_empty(RESULT_SIZE_EXTENSION, g)),
        !._output = np_r(res._output, np_empty(RESULT_SIZE_EXTENSION, g)),
        !._events = np_r(res._events,
                         [i \in 1..RESULT_SIZE_EXTENSION |->
                             [e \in 0..(sys.num_events - 1) |-> TRUE]])]

\* SimulationResult.extend_space
extend_space(res, sys, g) ==
    [res EXCEPT
        !._t      = np_r(res._t, np_empty(RESULT_SIZE_EXTENSION, g)),
        !._state  = np_r(res._state, np_empty(RESULT_SIZE_EXTENSION, g)),
        !._output = np_r(res._output, np_empty(RESULT_SIZE_EXTENSION, g)),
        !._events = np_r(res._events, np_zeros(RESULT_SIZE_EXTENSION, sys.num_events))]

\* SimulationResult.append; event is {} for None and {i} for event index i.
\* Python rows are 0-based, the sequences here 1-based: row current_idx is
\* element current_idx + 1.
append(res, sys, t, state, output, event, g) ==
    LET r0 == IF res.current_idx >= Len(res._t)
              THEN extend_space(res, sys, g)
              ELSE res
        k  == r0.current_idx + 1
    IN  [r0 EXCEPT
            !._t[k]      = t,
            !._state[k]  = state,
            !._output[k] = output,
            !._events[k] = [e \in DOMAIN @ |-> IF e \in event THEN TRUE ELSE @[e]],
            !.current_idx = @ + 1]

\* a row as handed to append
Row(t, state, output, event) ==
    [t |-> t, state |-> state, output |-> output, event |-> event]

(***************************************************************************)
(* The systems simulated.  A system has one state component x with         *)
(* derivative `rate`, the output x + t, a vector of event functions and    *)
(* one update_state_function.                                              *)
(***************************************************************************)
\* event function descriptors
StateEv(c)     == [kind |-> "state",  a |-> c, b |-> c]   \* x - c
TimeEv(c)      == [kind |-> "time",   a |-> c, b |-> c]   \* t - c
OutputEv(c)    == [kind |-> "output", a |-> c, b |-> c]   \* outputs - c
WindowEv(a, b) == [kind |-> "window", a |-> a, b |-> b]   \* (2t - a) * (2t - b)

System(evs, rate, handler) ==
    [num_states        |-> 1,
     num_outputs       |-> 1,
     num_events        |-> Len(evs),
     events            |-> [i \in 0..(Len(evs) - 1) |-> evs[i + 1]],
     initial_condition |-> 0,
     rate              |-> rate,
     handler           |-> handler]

Systems ==
    { System(<<StateEv(2), TimeEv(2)>>, 1, "keep"),
      System(<<TimeEv(3), StateEv(2)>>, 1, "reset"),
      System(<<TimeEv(MaxT - 1), OutputEv(3)>>, 1, "keep"),
      System(<<WindowEv(3, 5), TimeEv(1)>>, 0, "bump"),
      System(<<>>, 1, "keep") }

\* system.output_function(t, state)
output_function(sys, t, state) == state + t

\* system.state_update_function(t, state, outputs): the derivative dx/dt
state_update_function(sys, t, state, outputs) == sys.rate

\* system.event_function(t, state, outputs): the vector of event values
event_function(sys, t, state, outputs) ==
    [i \in 0..(sys.num_events - 1) |->
        LET ev == sys.events[i]
        IN  CASE ev.kind = "state"  -> state - ev.a
              [] ev.kind = "time"   -> t - ev.a
              [] ev.kind = "output" -> outputs - ev.a
              [] ev.kind = "window" -> (2 * t - ev.a) * (2 * t - ev.b)]

\* system.update_state_function(t, state, outputs): the state after an event
update_state_function(sys, t, state, outputs) ==
    CASE sys.handler = "keep"  -> state
      [] sys.handler = "reset" -> 0
      [] sys.handler = "bump"  -> state + 1

\* the update function an event of the system is paired with: the system's
\* handler is the one of its first event, the other events leave the state
event_update(sys, eventidx) == IF eventidx = 0 THEN sys.handler ELSE "keep"

\* what an update function of kind h returns
apply_update(h, t, state, outputs) ==
    CASE h = "keep"  -> state
      [] h = "reset" -> 0
      [] h = "bump"  -> state + 1

(***************************************************************************)
(* The integrator: an object with the interface of                         *)
(* scipy.integrate.OdeSolver (constructor, step, dense_output, status, t,  *)
(* y), as Simulator.__init__ documents.  The derivative is constant along  *)
(* a step, so the step and its dense output are exact.                     *)
(***************************************************************************)
Messages == {"Required step size is less than spacing between numbers.",
             "Step failed."}

\* integrator_constructor(fun, t0, y0, t_bound, **options)
integrator_constructor(sys, t0, y0, t_bound) ==
    [t         |-> t0,
     y         |-> y0,
     t0        |-> t0,
     t_old     |-> t0,
     y_old     |-> y0,
     t_bound   |-> t_bound,
     direction |-> IF t_bound # t0 THEN sign(t_bound - t0) ELSE 1,
     rate      |-> state_update_function(sys, t0, y0, output_function(sys, t0, y0)),
     message   |-> None,
     status    |-> "running"]

\* Simulator.state_derivative_function as seen by the integrator
state_derivative_function(sys, t, state) ==
    state_update_function(sys, t, state, output_function(sys, t, state))

\* integrator.step(): the outcomes it can have on a running integrator.
\* It fails with a message, or advances by 1..MaxStep ticks towards t_bound
\* without passing it, and is finished once it has reached t_bound.
integrator_step(sys, ig) ==
    IF ig.t = ig.t_bound
    THEN { [integrator |-> [ig EXCEPT !.t_old = ig.t, !.y_old = ig.y,
                                      !.status = "finished"],
            message |-> None] }
    ELSE { [integrator |-> [ig EXCEPT !.status = "failed", !.message = m],
            message |-> m]
             : m \in Messages }
         \cup
         { [integrator |->
               LET t1 == ig.t + ig.direction * h
                   y1 == ig.y + state_derivative_function(sys, ig.t, ig.y)
                                   * (t1 - ig.t)
               IN  [ig EXCEPT !.t_old = ig.t, !.y_old = ig.y,
                              !.t = t1, !.y = y1,
                              !.rate = state_derivative_function(sys, ig.t, ig.y),
                              !.status = IF ig.direction * (t1 - ig.t_bound) >= 0
                                         THEN "finished" ELSE "running"],
            message |-> None]
             : h \in 1..Min(MaxStep, Abs(ig.t_bound - ig.t)) }

\* integrator.dense_output()(t): the solution over the last step, continued
\* by the same polynomial outside [t_old, t]
interpolator(ig, t) == ig.y_old + ig.rate * (t - ig.t_old)

(***************************************************************************)
(* The root-finder scipy.optimize.brentq(f, a, b, xtol=...).  F is the     *)
(* function, given on ticks.  The outcomes: a result, or an exception.     *)
(***************************************************************************)
\* xtol of scipy.optimize.brentq when the caller passes none: 2e-12, 4 ticks
BRENTQ_XTOL == 4

\* the ticks of the bracket at or next to a sign change of F
Crossings(F, lo, hi) ==
    { x \in lo..hi :
        \/ F[x] = 0
        \/ \E x2 \in {x - 1, x + 1} \cap (lo..hi) : sign(F[x]) * sign(F[x2]) < 0 }

\* brentq(f, a, b, xtol): F is f on the ticks of the bracket
brentq(F, a, b, xtol) ==
    LET lo == Min(a, b)
        hi == Max(a, b)
    IN  IF F[a] = 0 THEN { [exc |-> None, x |-> a] }
        ELSE IF F[b] = 0 THEN { [exc |-> None, x |-> b] }
        ELSE IF sign(F[a]) * sign(F[b]) > 0
        THEN { [exc |-> "ValueError", x |-> a] }
        ELSE { [exc |-> None, x |-> x] :
                 x \in { x \in lo..hi :
                           \E r \in Crossings(F, lo, hi) : Abs(x - r) <= xtol } }
             \cup { [exc |-> "RuntimeError", x |-> a] }

(***************************************************************************)
(* Simulator.                                                              *)
(***************************************************************************)
\* outcomes of a call: it returns a value, or an exception leaves it
Returned(v) == [kind |-> "returned", value |-> v]
Raised(e)   == [kind |-> "raised", value |-> e]
NoCall      == [kind |-> "nocall", value |-> None]

\* Simulator.running
running(ig) == ig.status = "running"

\* Simulator.output
output(sys, ig) == output_function(sys, ig.t, ig.y)

\* Simulator.event_values
event_values(sys, ig) == event_function(sys, ig.t, ig.y, output(sys, ig))

\* event_interpolator(t) of Simulator.step
event_interpolator(sys, ig, t) ==
    LET state   == interpolator(ig, t)
        outputs == output_function(sys, t, state)
    IN  event_function(sys, t, state, outputs)

\* np.flatnonzero(mask): the indices holding TRUE, ascending
RECURSIVE flatnonzero_from(_, _, _)
flatnonzero_from(mask, i, n) ==
    IF i >= n THEN <<>>
    ELSE (IF mask[i] THEN <<i>> ELSE <<>>) \o flatnonzero_from(mask, i + 1, n)

flatnonzero(mask, n) == flatnonzero_from(mask, 0, n)

\* candidates taken where the values have opposite signs: a zero is no change
events_occurred_strict(old_event_values, new_event_values) ==
    flatnonzero([i \in DOMAIN old_event_values |->
                    old_event_values[i] * new_event_values[i] < 0],
                Cardinality(DOMAIN old_event_values))

\* events_occurred of Simulator.step
events_occurred(old_event_values, new_event_values) ==
    flatnonzero([i \in DOMAIN old_event_values |->
                    sign(old_event_values[i]) # sign(new_event_values[i])],
                Cardinality(DOMAIN old_event_values))

\* list.sort(key=entry[1]): a stable sort of (eventidx, tc) pairs by tc.
\* insert_entry puts e behind every entry whose key is not larger.
\* an unstable insertion: e goes in front of entries with an equal key
RECURSIVE insert_entry_unstable(_, _)
insert_entry_unstable(sorted, e) ==
    IF sorted = <<>> THEN <<e>>
    ELSE IF sorted[1][2] < e[2]
         THEN <<sorted[1]>> \o insert_entry_unstable(Tail(sorted), e)
         ELSE <<e>> \o sorted

RECURSIVE insert_entry(_, _)
insert_entry(sorted, e) ==
    IF sorted = <<>> THEN <<e>>
    ELSE IF sorted[1][2] <= e[2]
         THEN <<sorted[1]>> \o insert_entry(Tail(sorted), e)
         ELSE <<e>> \o sorted

RECURSIVE sort_by_time(_)
sort_by_time(tcross) ==
    IF tcross = <<>> THEN <<>>
    ELSE insert_entry(sort_by_time(SubSeq(tcross, 1, Len(tcross) - 1)),
                      tcross[Len(tcross)])

\* the root-finder call of Simulator.step for one candidate: brentq itself
\* with no options, whatever rootfinder_constructor and rootfinder_options say
locate(sys, ig, eventidx, last_t, rfc, rfo) ==
    [constructor |-> DEFAULT_ROOTFINDER,
     xtol        |-> BRENTQ_XTOL,
     outcomes    |-> LET F == [t \in Min(last_t, ig.t)..Max(last_t, ig.t) |->
                                     event_interpolator(sys, ig, t)[eventidx]]
                     IN  brentq(F, last_t, ig.t, BRENTQ_XTOL)]

\* the output_function calls one brentq call makes: both ends of the
\* bracket first, then the iterates, of which the returned one is known
brentq_calls(ig, last_t, o) ==
    <<  <<last_t, interpolator(ig, last_t)>>, <<ig.t, interpolator(ig, ig.t)>> >>
    \o (IF o.exc = None /\ o.x \notin {last_t, ig.t}
        THEN << <<o.x, interpolator(ig, o.x)>> >> ELSE <<>>)

\* a restart at the located crossing time itself
restart_time_exact(event_t, rfo) == event_t

\* the time at which integration continues after an event at event_t
restart_time(event_t, rfo) == event_t + rfo.xtol \div 2

\* output_function calls of the root-finder loop over candidates 1..upto
RECURSIVE loop_calls(_, _, _, _)
loop_calls(ig, last_t, rfs, upto) ==
    IF upto = 0 THEN <<>>
    ELSE loop_calls(ig, last_t, rfs, upto - 1)
         \o brentq_calls(ig, last_t, rfs[upto])

\* what a step() call leaves behind
StepRecord(kind, last_t, ig, cands, tcross, event, event_t, next_t, new_state, rf_used, updates, before) ==
    [kind       |-> kind,        \* "notrunning", "failed", "noevent", "event", "rootfail"
     last_t     |-> last_t,      \* time before the integrator step
     t          |-> ig.t,        \* time after the integrator step
     y_old      |-> ig.y_old,    \* state before the integrator step
     y          |-> ig.y,        \* state after the integrator step
     cands      |-> cands,       \* events_occurred
     tcross     |-> tcross,      \* (eventidx, tc) pairs in the order located
     event      |-> event,       \* {event_idx} of the processed event, or {}
     event_t    |-> event_t,
     next_t     |-> next_t,
     new_state  |-> new_state,
     rf_used    |-> rf_used,     \* the root-finders called, with their tolerance
     updates    |-> updates,     \* the update_state_function calls made
     before     |-> before]      \* the result store when step() was called

\* Simulator.step, the branch with candidates: cands are located in order
\* with outcomes rfs; the first failure leaves step() as an exception.
step_events(sys, tb, rfc, rfo, ig, last_t, res, pend, cands, rfs, g, calls0) ==
    LET n       == Len(cands)
        used    == { [constructor |-> locate(sys, ig, cands[k], last_t, rfc, rfo).constructor,
                      xtol        |-> locate(sys, ig, cands[k], last_t, rfc, rfo).xtol]
                     : k \in 1..n }
        failing == { k \in 1..n :
                       \/ rfs[k].exc # None
                       \/ ~(last_t <= rfs[k].x /\ rfs[k].x <= ig.t) }
    IN  IF failing # {}
        THEN LET k   == CHOOSE k \in failing : \A j \in failing : k <= j
                 exc == IF rfs[k].exc # None THEN rfs[k].exc ELSE "AssertionError"
             IN  [integrator |-> ig,
                  result     |-> res,
                  ret        |-> Raised(exc),
                  rows       |-> <<>>,
                  pending    |-> pend,
                  calls      |-> calls0 \o loop_calls(ig, last_t, rfs, k),
                  last       |-> StepRecord("rootfail", last_t, ig,
                                    cands, [j \in 1..(k - 1) |-> <<cands[j], rfs[j].x>>],
                                    {}, last_t, last_t, ig.y,
                                    { [constructor |-> locate(sys, ig, cands[j], last_t, rfc, rfo).constructor,
                                       xtol        |-> locate(sys, ig, cands[j], last_t, rfc, rfo).xtol]
                                      : j \in 1..k },
                                    <<>>, res)]
        ELSE LET tcross        == [k \in 1..n |-> <<cands[k], rfs[k].x>>]
                 sorted        == sort_by_time(tcross)
                 event_idx     == sorted[1][1]
                 event_t       == sorted[1][2]
                 event_state   == interpolator(ig, event_t)
                 event_outputs == output_function(sys, event_t, event_state)
                 next_t        == restart_time(event_t, rfo)
                 next_state    == interpolator(ig, next_t)
                 next_outputs  == output_function(sys, next_t, next_state)
                 new_state     == update_state_function(sys, next_t, next_state,
                                                        next_outputs)
             IN  [integrator |-> integrator_constructor(sys, next_t, new_state, tb),
                  result     |-> append(res, sys, event_t, event_state,
                                        event_outputs, {event_idx}, g),
                  ret        |-> Returned(None),
                  rows       |-> << Row(event_t, event_state, event_outputs,
                                        {event_idx}) >>,
                  pending    |-> (pend \cup { cands[k] : k \in 1..n }) \ {event_idx},
                  calls      |-> calls0 \o loop_calls(ig, last_t, rfs, n)
                                 \o << <<event_t, event_state>>,
                                       <<next_t, next_state>> >>,
                  last       |-> StepRecord("event", last_t, ig, cands, tcross,
                                    {event_idx}, event_t, next_t, new_state, used,
                                    << [t |-> next_t, state |-> next_state,
                                        outputs |-> next_outputs] >>,
                                    res)]

\* the outcomes the root-finder can have for every candidate of a step
candidate_outcomes(sys, ig, last_t, rfc, rfo, cands) ==
    LET all == UNION { locate(sys, ig, cands[k], last_t, rfc, rfo).outcomes
                       : k \in 1..Len(cands) }
    IN  { rfs \in [1..Len(cands) -> all] :
            \A k \in 1..Len(cands) :
                rfs[k] \in locate(sys, ig, cands[k], last_t, rfc, rfo).outcomes }

\* a step that records the end-of-step point as well after an event
step_advanced_end_too(sys, tb, rfc, rfo, ig, last_t, old_event_values, res, pend, g, calls0) ==
    LET new_event_values == event_values(sys, ig)
        cands  == events_occurred(old_event_values, new_event_values)
        calls1 == calls0 \o << <<ig.t, ig.y>> >>
        end_row == Row(ig.t, ig.y, output(sys, ig), {})
        also(o) == IF o.ret = Returned(None)
                   THEN [o EXCEPT !.result = append(@, sys, ig.t, ig.y, output(sys, ig), {}, g),
                                  !.rows = Append(@, end_row)]
                   ELSE o
    IN  IF Len(cands) > 0
        THEN { also(step_events(sys, tb, rfc, rfo, ig, last_t, res, pend, cands, rfs, g, calls1))
               : rfs \in candidate_outcomes(sys, ig, last_t, rfc, rfo, cands) }
        ELSE { [integrator |-> ig,
                result     |-> append(res, sys, ig.t, ig.y, output(sys, ig), {}, g),
                ret        |-> Returned(None),
                rows       |-> << end_row >>,
                pending    |-> pend,
                calls      |-> calls1 \o << <<ig.t, ig.y>> >>,
                last       |-> StepRecord("noevent", last_t, ig, cands, <<>>, {},
                                  last_t, last_t, ig.y, {}, <<>>, res)] }

\* Simulator.step after a successful integrator step to ig
step_advanced(sys, tb, rfc, rfo, ig, last_t, old_event_values, res, pend, g, calls0) ==
    LET new_event_values == event_values(sys, ig)
        cands  == events_occurred(old_event_values, new_event_values)
        calls1 == calls0 \o << <<ig.t, ig.y>> >>
    IN  IF Len(cands) > 0
        THEN { step_events(sys, tb, rfc, rfo, ig, last_t, res, pend, cands, rfs, g, calls1)
               : rfs \in candidate_outcomes(sys, ig, last_t, rfc, rfo, cands) }
        ELSE { [integrator |-> ig,
                result     |-> append(res, sys, ig.t, ig.y, output(sys, ig), {}, g),
                ret        |-> Returned(None),
                rows       |-> << Row(ig.t, ig.y, output(sys, ig), {}) >>,
                pending    |-> pend,
                calls      |-> calls1 \o << <<ig.t, ig.y>> >>,
                last       |-> StepRecord("noevent", last_t, ig, cands, <<>>, {},
                                  last_t, last_t, ig.y, {}, <<>>, res)] }

\* step() recording the current point although the integrator step failed
step_failed_records(ig, message, last_t, res, pend, calls0) ==
    [integrator |-> ig,
     result     |-> [res EXCEPT !._t[res.current_idx + 1] = ig.t,
                                !.current_idx = @ + 1],
     ret        |-> Returned(message),
     rows       |-> <<>>,
     pending    |-> pend,
     calls      |-> calls0,
     last       |-> StepRecord("failed", last_t, ig, <<>>, <<>>, {},
                       last_t, last_t, ig.y, {}, <<>>, res)]

\* Simulator.step when the integrator step reported the failure `message`
step_failed(ig, message, last_t, res, pend, calls0) ==
    [integrator |-> ig,
     result     |-> res,
     ret        |-> Returned(message),
     rows       |-> <<>>,
     pending    |-> pend,
     calls      |-> calls0,
     last       |-> StepRecord("failed", last_t, ig, <<>>, <<>>, {},
                       last_t, last_t, ig.y, {}, <<>>, res)]

\* Simulator.step: every outcome of one call.  On an integrator that is not
\* running, integrator.step() raises RuntimeError.
step(sys, tb, rfc, rfo, ig, res, pend, g) ==
    LET old_event_values == event_values(sys, ig)
        last_t == ig.t
        calls0 == << <<ig.t, ig.y>> >>
    IN  IF ~running(ig)
        THEN { [integrator |-> ig,
                result     |-> res,
                ret        |-> Raised("RuntimeError"),
                rows       |-> <<>>,
                pending    |-> pend,
                calls      |-> calls0,
                last       |-> StepRecord("notrunning", last_t, ig, <<>>, <<>>, {},
                                  last_t, last_t, ig.y, {}, <<>>, res)] }
        ELSE UNION { IF io.message # None
                     THEN { step_failed(io.integrator, io.message, last_t, res,
                                        pend, calls0) }
                     ELSE step_advanced(sys, tb, rfc, rfo, io.integrator, last_t,
                                        old_event_values, res, pend, g, calls0)
                     : io \in integrator_step(sys, ig) }

\* a constructor that always starts from the system's declared initial condition
Simulator_declared_only(sys, t0, tb, ic, rfc, rfo, g) ==
    LET ig == integrator_constructor(sys, t0, sys.initial_condition, tb)
    IN  [system                 |-> sys,
         tbound                 |-> tb,
         rootfinder_constructor |-> rfc,
         rootfinder_options     |-> rfo,
         integrator             |-> ig,
         result                 |-> append(SimulationResult(sys, g), sys,
                                           ig.t, ig.y, output(sys, ig), {}, g),
         rows                   |-> << Row(ig.t, ig.y, output(sys, ig), {}) >>,
         calls                  |-> << <<ig.t, ig.y>> >>]

\* Simulator.__init__: the fields of the new simulator
Simulator(sys, t0, tb, ic, rfc, rfo, g) ==
    LET y0 == IF ic = {} THEN sys.initial_condition
              ELSE CHOOSE v \in ic : TRUE
        ig == integrator_constructor(sys, t0, y0, tb)
    IN  [system                 |-> sys,
         tbound                 |-> tb,
         rootfinder_constructor |-> rfc,
         rootfinder_options     |-> rfo,
         integrator             |-> ig,
         result                 |-> append(SimulationResult(sys, g), sys,
                                           ig.t, ig.y, output(sys, ig), {}, g),
         rows                   |-> << Row(ig.t, ig.y, output(sys, ig), {}) >>,
         calls                  |-> << <<ig.t, ig.y>> >>]

(***************************************************************************)
(* The simulator specification: a simulator is constructed, then step()    *)
(* and run() are called in any order.                                      *)
(***************************************************************************)
\* the arguments simulators are constructed with
StartTimes == 0..1
EndTimes == (MaxT - 1)..MaxT
\* {} is initial_condition=None
InitialConditions == { {}, {1} }
RootfinderConfigs ==
    { [constructor |-> DEFAULT_ROOTFINDER, options |-> DEFAULT_ROOTFINDER_OPTIONS],
      [constructor |-> "bisect",
       options     |-> [xtol |-> 2 * DEFAULT_XTOL, maxiter |-> "1E2"]] }

NoFeed == [base |-> 0, every |-> 0]

\* the model library is not in use
LibIdle ==
    /\ evaluation = {}
    /\ model = {}
    /\ hold = {}

\* no simulator has been constructed
SimIdle ==
    /\ system = System(<<>>, 0, "keep")
    /\ tbound = 0
    /\ initial_condition = {}
    /\ rootfinder_constructor = DEFAULT_ROOTFINDER
    /\ rootfinder_options = DEFAULT_ROOTFINDER_OPTIONS
    /\ integrator = {}
    /\ result = {}
    /\ mode = "none"
    /\ ret = NoCall
    /\ run_ret = NoCall
    /\ run_trace = <<>>
    /\ last = {}
    /\ calls = <<>>
    /\ log = <<>>
    /\ pending = {}
    /\ feed = NoFeed
    /\ steps_none = 0

Init ==
    \E sys \in Systems, t0 \in StartTimes, tb \in EndTimes,
       ic \in InitialConditions, rf \in RootfinderConfigs, g \in Garbage :
        LET sim == Simulator(sys, t0, tb, ic, rf.constructor, rf.options, g)
        IN  /\ system = sim.system
            /\ tbound = sim.tbound
            /\ initial_condition = ic
            /\ rootfinder_constructor = sim.rootfinder_constructor
            /\ rootfinder_options = sim.rootfinder_options
            /\ integrator = sim.integrator
            /\ result = sim.result
            /\ mode = "idle"
            /\ ret = NoCall
            /\ run_ret = NoCall
            /\ run_trace = <<>>
            /\ last = StepRecord("nocall", t0, sim.integrator, <<>>, <<>>, {},
                                 t0, t0, sim.integrator.y, {}, <<>>,
                                 SimulationResult(sys, g))
            /\ calls = sim.calls
            /\ log = sim.rows
            /\ pending = {}
            /\ feed = NoFeed
            /\ steps_none = 0
            /\ LibIdle

\* the state change of one step() call with outcome o
DoStep(o) ==
    /\ integrator' = o.integrator
    /\ result' = o.result
    /\ ret' = o.ret
    /\ last' = o.last
    /\ calls' = o.calls
    /\ log' = log \o o.rows
    /\ pending' = o.pending
    /\ steps_none' = steps_none + (IF o.ret = Returned(None) THEN 1 ELSE 0)
    /\ UNCHANGED <<system, tbound, initial_condition, rootfinder_constructor,
                   rootfinder_options, feed>>
    /\ UNCHANGED libVars

\* the caller calls step()
Step ==
    /\ mode = "idle"
    /\ \E g \in Garbage :
         \E o \in step(system, tbound, rootfinder_constructor, rootfinder_options,
                       integrator, result, pending, g) :
            DoStep(o)
    /\ UNCHANGED <<mode, run_ret, run_trace>>

\* the caller calls run()
RunBegin ==
    /\ mode = "idle"
    /\ mode' = "run"
    /\ run_trace' = <<>>
    /\ run_ret' = NoCall
    /\ UNCHANGED <<system, tbound, initial_condition, rootfinder_constructor,
                   rootfinder_options, integrator, result, ret, last, calls,
                   log, pending, feed, steps_none>>
    /\ UNCHANGED libVars

\* run() going on with the loop whatever step() returned
run_after_step_ignoring(r) ==
    IF r.kind = "raised" THEN r ELSE NoCall

\* Simulator.run: the outcome of run() after a step() with outcome r, or
\* NoCall when the loop goes on
run_after_step(r) ==
    IF r.kind = "raised" THEN r
    ELSE IF r.value # None THEN Returned(r.value)
    ELSE NoCall

\* Simulator.run: one iteration of the loop, entered while running
RunStep ==
    /\ mode = "run"
    /\ running(integrator)
    /\ \E g \in Garbage :
         \E o \in step(system, tbound, rootfinder_constructor, rootfinder_options,
                       integrator, result, pending, g) :
            /\ DoStep(o)
            /\ run_trace' = Append(run_trace, o.ret)
            /\ run_ret' = run_after_step(o.ret)
            /\ mode' = IF run_after_step(o.ret) = NoCall THEN "run" ELSE "idle"

\* Simulator.run: the loop condition is false, run() returns None
RunReturn ==
    /\ mode = "run"
    /\ ~running(integrator)
    /\ run_ret' = Returned(None)
    /\ mode' = "idle"
    /\ UNCHANGED <<system, tbound, initial_condition, rootfinder_constructor,
                   rootfinder_options, integrator, result, ret, last, calls,
                   log, pending, feed, run_trace, steps_none>>
    /\ UNCHANGED libVars

Next == Step \/ RunBegin \/ RunStep \/ RunReturn

Spec == Init /\ [][Next]_vars

(***************************************************************************)
(* The long-run specification: a simulator over LongT ticks whose          *)
(* integrator is held to steps of one tick (integrator_options such as     *)
(* max_step), so that more samples are recorded than the result store      *)
(* holds at first.                                                         *)
(***************************************************************************)
\* end time (ticks) of the long run
LongT == 18

LongSystems ==
    { System(<<TimeEv(LongT - 1), StateEv(LongT - 2)>>, 1, "keep"),
      System(<<StateEv(3), TimeEv(LongT - 1)>>, 1, "reset"),
      System(<<>>, 1, "keep") }

InitLong ==
    \E sys \in LongSystems, rf \in RootfinderConfigs, g \in Garbage :
        LET sim == Simulator(sys, 0, LongT, {}, rf.constructor, rf.options, g)
        IN  /\ system = sim.system
            /\ tbound = sim.tbound
            /\ initial_condition = {}
            /\ rootfinder_constructor = sim.rootfinder_constructor
            /\ rootfinder_options = sim.rootfinder_options
            /\ integrator = sim.integrator
            /\ result = sim.result
            /\ mode = "idle"
            /\ ret = NoCall
            /\ run_ret = NoCall
            /\ run_trace = <<>>
            /\ last = StepRecord("nocall", 0, sim.integrator, <<>>, <<>>, {},
                                 0, 0, sim.integrator.y, {}, <<>>,
                                 SimulationResult(sys, g))
            /\ calls = sim.calls
            /\ log = sim.rows
            /\ pending = {}
            /\ feed = NoFeed
            /\ steps_none = 0
            /\ LibIdle

\* the caller calls step(); the integrator advances by one tick at most
StepUnit ==
    /\ Step
    /\ last'.kind \in {"noevent", "event", "rootfail"} => Abs(last'.t - last'.last_t) <= 1

NextLong == StepUnit

SpecLong == InitLong /\ [][NextLong]_vars

(***************************************************************************)
(* The run specification: a caller that only calls run().  Besides the     *)
(* tolerances above, the simulator may be configured with an xtol of one   *)
(* tick, the smallest time difference there is: its half is lost when it   *)
(* is added to a time, as 1e-12 / 2 is lost in float64 when added to a     *)
(* time of 8192 or more.  The loop of run() is followed for MaxSamples     *)
(* samples.                                                                *)
(***************************************************************************)
\* number of samples up to which the loop of run() is followed
MaxSamples == 5

\* the configurations above, and one with an xtol of one tick, whose half
\* is below the resolution of time
RunConfigs ==
    RootfinderConfigs
    \cup { [constructor |-> DEFAULT_ROOTFINDER,
            options     |-> [xtol |-> 1, maxiter |-> "1E3"]] }

InitRun ==
    \E sys \in Systems, t0 \in StartTimes, tb \in EndTimes,
       ic \in InitialConditions, rf \in RunConfigs, g \in Garbage :
        LET sim == Simulator(sys, t0, tb, ic, rf.constructor, rf.options, g)
        IN  /\ system = sim.system
            /\ tbound = sim.tbound
            /\ initial_condition = ic
            /\ rootfinder_constructor = sim.rootfinder_constructor
            /\ rootfinder_options = sim.rootfinder_options
            /\ integrator = sim.integrator
            /\ result = sim.result
            /\ mode = "idle"
            /\ ret = NoCall
            /\ run_ret = NoCall
            /\ run_trace = <<>>
            /\ last = StepRecord("nocall", t0, sim.integrator, <<>>, <<>>, {},
                                 t0, t0, sim.integrator.y, {}, <<>>,
                                 SimulationResult(sys, g))
            /\ calls = sim.calls
            /\ log = sim.rows
            /\ pending = {}
            /\ feed = NoFeed
            /\ steps_none = 0
            /\ LibIdle

\* Simulator.run: one iteration of the loop, followed up to MaxSamples samples
RunStepBounded ==
    /\ result.current_idx < MaxSamples
    /\ RunStep

NextRun == RunBegin \/ RunStepBounded \/ RunReturn

\* run() is not interrupted: its loop goes on while it can
SpecRun ==
    /\ InitRun
    /\ [][NextRun]_vars
    /\ WF_vars(RunStepBounded)
    /\ WF_vars(RunReturn)

(***************************************************************************)
(* The store specification: a SimulationResult on its own, appended to     *)
(* MaxAppend times.  The rows come from a generator fixed at the start.    *)
(***************************************************************************)
Feeds == { [base |-> b, every |-> e] : b \in 0..1, e \in 1..3 }

\* row number n (0-based) of the feed
FeedRow(fd, sys, n) ==
    LET t     == fd.base + n
        state == (fd.base + 2 * n) % 5
    IN  Row(t, state, t + state,
            IF sys.num_events > 0 /\ n % fd.every = 0
            THEN {n % sys.num_events} ELSE {})

InitStore ==
    \E sys \in Systems, fd \in Feeds, g \in Garbage :
        /\ system = sys
        /\ feed = fd
        /\ result = SimulationResult(sys, g)
        /\ log = <<>>
        /\ mode = "store"
        /\ tbound = 0
        /\ initial_condition = {}
        /\ rootfinder_constructor = DEFAULT_ROOTFINDER
        /\ rootfinder_options = DEFAULT_ROOTFINDER_OPTIONS
        /\ integrator = integrator_constructor(sys, 0, 0, 0)
        /\ ret = NoCall
        /\ run_ret = NoCall
        /\ run_trace = <<>>
        /\ last = StepRecord("nocall", 0, integrator_constructor(sys, 0, 0, 0),
                             <<>>, <<>>, {}, 0, 0, 0, {}, <<>>,
                             SimulationResult(sys, g))
        /\ calls = <<>>
        /\ pending = {}
        /\ steps_none = 0
        /\ LibIdle

\* a caller appends the next row of the feed
StoreAppend ==
    /\ mode = "store"
    /\ result.current_idx < MaxAppend
    /\ \E g \in Garbage :
         LET row == FeedRow(feed, system, result.current_idx)
         IN  /\ result' = append(result, system, row.t, row.state, row.output,
                                 row.event, g)
             /\ log' = Append(log, row)
    /\ UNCHANGED <<system, tbound, initial_condition, rootfinder_constructor,
                   rootfinder_options, integrator, mode, ret, run_ret,
                   run_trace, last, calls, pending, feed, steps_none>>
    /\ UNCHANGED libVars

NextStore == StoreAppend

SpecStore == InitStore /\ [][NextStore]_vars

(***************************************************************************)
(* The Evaluator (modypy.model.evaluation): signals are resolved on demand *)
(* against one snapshot, a time and a state vector.  A signal function     *)
(* returns its base plus the time plus the sum of everything it reads.     *)
(***************************************************************************)
\* largest component of a snapshot's state vector
MaxValue == 2

\* what a signal function reads: another signal, or a state
SignalDep(i) == [kind |-> "signal", id |-> i]
StateDep(i) == [kind |-> "state", id |-> i]

Signal(base, reads) == [base |-> base, reads |-> reads]

\* a state of one line; derivative is the signal giving its derivative, 0 for none
StateLine(index, derivative) == [state_index |-> index, size |-> 1, derivative |-> derivative]

Networks ==
    { \* A reads B and B reads A
      [signals |-> << Signal(1, <<SignalDep(2)>>), Signal(2, <<SignalDep(1)>>) >>,
       states  |-> << >>],
      \* A reads B, B reads the state whose derivative is A: feedback through an integrator
      [signals |-> << Signal(1, <<SignalDep(2)>>), Signal(0, <<StateDep(1)>>) >>,
       states  |-> << StateLine(0, 1) >>],
      \* A reads B and C, which both read D; D reads two states
      [signals |-> << Signal(0, <<SignalDep(2), SignalDep(3)>>),
                      Signal(1, <<SignalDep(4)>>),
                      Signal(2, <<SignalDep(4)>>),
                      Signal(0, <<StateDep(2), StateDep(1)>>) >>,
       states  |-> << StateLine(0, 0), StateLine(1, 1) >>],
      \* A reads itself after reading a state; B reads a constant C; D reads B and A
      [signals |-> << Signal(0, <<StateDep(1), SignalDep(1)>>),
                      Signal(1, <<SignalDep(3)>>),
                      Signal(3, << >>),
                      Signal(0, <<SignalDep(2), SignalDep(1)>>) >>,
       states  |-> << StateLine(0, 0) >>] }

\* SystemState.get_state_value: the slice of the snapshot's state vector
get_state_value(snapshot, st) == snapshot.state[st.state_index + 1]

\* a state read that answers with the state's place instead of its content
State_call_index(snapshot, st) == st.state_index

\* State.__call__
State_call(snapshot, st) == get_state_value(snapshot, st)

\* a fresh Evaluator for one snapshot: nothing is resolved
Evaluator(net, time, state) ==
    [net     |-> net,
     time    |-> time,
     state   |-> state,
     target  |-> 0,
     status  |-> [i \in 1..Len(net.signals) |-> "unresolved"],
     cache   |-> [i \in 1..Len(net.signals) |-> 0],
     invoked |-> [i \in 1..Len(net.signals) |-> 0],
     stack   |-> << >>,
     outcome |-> NoCall]

\* the invocation of signal i's function, about to make its first read
Frame(ev, i) == [signal |-> i, next |-> 1, acc |-> ev.net.signals[i].base + ev.time]

\* value_of, case 3: mark in-progress and invoke the signal's function
invoke(ev, i) ==
    [ev EXCEPT !.status[i] = "in-progress",
               !.invoked[i] = @ + 1,
               !.stack = Append(@, Frame(ev, i))]

\* the running signal function receives v for its current read
receive(ev, v) ==
    [ev EXCEPT !.stack[Len(ev.stack)].acc = @ + v,
               !.stack[Len(ev.stack)].next = @ + 1]

\* the running signal function and what it reads next ({} when it is done)
Top(ev) == ev.stack[Len(ev.stack)]
NextRead(ev) ==
    LET f == Top(ev)
        reads == ev.net.signals[f.signal].reads
    IN  IF f.next <= Len(reads) THEN {reads[f.next]} ELSE {}

SnapTimes == 0..1
SnapStates(net) == [1..Len(net.states) -> 0..MaxValue]

InitEval ==
    /\ \E net \in Networks, t \in SnapTimes :
         \E x \in SnapStates(net) : evaluation = Evaluator(net, t, x)
    /\ model = {}
    /\ hold = {}
    /\ SimIdle

\* a top-level value_of(i) on a new snapshot
EvalCall ==
    /\ evaluation.stack = << >>
    /\ \E i \in 1..Len(evaluation.net.signals), t \in SnapTimes :
         \E x \in SnapStates(evaluation.net) :
            evaluation' = [invoke(Evaluator(evaluation.net, t, x), i) EXCEPT !.target = i]
    /\ UNCHANGED <<model, hold>>
    /\ UNCHANGED simVars

\* the running function reads a state
EvalReadState ==
    /\ evaluation.stack # << >>
    /\ \E d \in NextRead(evaluation) :
         /\ d.kind = "state"
         /\ evaluation' = receive(evaluation,
                                  State_call(evaluation, evaluation.net.states[d.id]))
    /\ UNCHANGED <<model, hold>>
    /\ UNCHANGED simVars

\* value_of, case 1: the signal read is resolved
EvalReadResolved ==
    /\ evaluation.stack # << >>
    /\ \E d \in NextRead(evaluation) :
         /\ d.kind = "signal"
         /\ evaluation.status[d.id] = "resolved"
         /\ evaluation' = receive(evaluation, evaluation.cache[d.id])
    /\ UNCHANGED <<model, hold>>
    /\ UNCHANGED simVars

\* value_of, case 2: the signal read is in progress
EvalReadInProgress ==
    /\ evaluation.stack # << >>
    /\ \E d \in NextRead(evaluation) :
         /\ d.kind = "signal"
         /\ evaluation.status[d.id] = "in-progress"
         /\ evaluation' = [evaluation EXCEPT !.stack = << >>,
                                             !.outcome = Raised("AlgebraicLoopError")]
    /\ UNCHANGED <<model, hold>>
    /\ UNCHANGED simVars

\* value_of, case 3: the signal read is unresolved
EvalReadUnresolved ==
    /\ evaluation.stack # << >>
    /\ \E d \in NextRead(evaluation) :
         /\ d.kind = "signal"
         /\ evaluation.status[d.id] = "unresolved"
         /\ evaluation' = invoke(evaluation, d.id)
    /\ UNCHANGED <<model, hold>>
    /\ UNCHANGED simVars

\* value_of, case 3: the function returns, its signal is resolved
EvalReturn ==
    /\ evaluation.stack # << >>
    /\ NextRead(evaluation) = {}
    /\ LET f == Top(evaluation)
           done == [evaluation EXCEPT !.status[f.signal] = "resolved",
                                      !.cache[f.signal] = f.acc,
                                      !.stack = SubSeq(@, 1, Len(@) - 1)]
       IN  evaluation' = IF done.stack = << >>
                         THEN [done EXCEPT !.outcome = Returned(f.acc)]
                         ELSE receive(done, f.acc)
    /\ UNCHANGED <<model, hold>>
    /\ UNCHANGED simVars

NextEval ==
    \/ EvalCall
    \/ EvalReadState
    \/ EvalReadResolved
    \/ EvalReadInProgress
    \/ EvalReadUnresolved
    \/ EvalReturn

SpecEval == InitEval /\ [][NextEval]_vars

(***************************************************************************)
(* States of a modypy System (modypy.model.states): each State created on  *)
(* a system is given lines of the system's state vector.                   *)
(***************************************************************************)
\* number of states created on one system
MaxStates == 4

\* the shapes states are created with: scalar, vectors, a matrix
Shapes == { << >>, <<1>>, <<2>>, <<3>>, <<2, 2>> }

\* AbstractSignal.size: the number of elements of the shape
RECURSIVE size_upto(_, _)
size_upto(shape, n) == IF n = 0 THEN 1 ELSE size_upto(shape, n - 1) * shape[n]
size_of(shape) == size_upto(shape, Len(shape))

\* a System without states
EmptySystem == [num_states |-> 0, states |-> << >>]

\* System.allocate_state_lines: the next count lines of the state vector
allocate_state_lines(sys, count) ==
    [system |-> [sys EXCEPT !.num_states = @ + count], start_index |-> sys.num_states]

\* State.__init__: the new state and its owner's system; ic is {} for None,
\* {v} for the value v
State(sys, derivative_function, shape, ic) ==
    LET alloc == allocate_state_lines(sys, size_of(shape))
        self == [derivative_function |-> derivative_function,
                 shape |-> shape,
                 size |-> size_of(shape),
                 initial_condition |-> IF ic = {}
                                       THEN [k \in 1..size_of(shape) |-> 0]
                                       ELSE CHOOSE v \in ic : TRUE,
                 state_index |-> alloc.start_index]
    IN  [self |-> self,
         system |-> [alloc.system EXCEPT !.states = Append(@, self)]]

\* a slice that takes one line whatever the size
state_slice_one(st) == st.state_index .. st.state_index

\* State.state_slice: slice(state_index, state_index + size)
state_slice(st) == st.state_index .. (st.state_index + st.size - 1)

InitStates ==
    /\ model = EmptySystem
    /\ evaluation = {}
    /\ hold = {}
    /\ SimIdle

\* a block creates a State on the system
StateCreate ==
    /\ Len(model.states) < MaxStates
    /\ \E shape \in Shapes, d \in {"None", "f"} :
         model' = State(model, d, shape, {}).system
    /\ UNCHANGED <<evaluation, hold>>
    /\ UNCHANGED simVars

NextStates == StateCreate

SpecStates == InitStates /\ [][NextStates]_vars

(***************************************************************************)
(* ZeroOrderHold (modypy.blocks.discrete) in a system with a clock, an     *)
(* integrator state x (derivative 1) and an input signal reading the time  *)
(* and x.  Time advances one tick at a time between the clock's ticks.     *)
(***************************************************************************)
\* the time (ticks) up to which the system with the hold block is run
MaxHoldT == 6

\* one period of a sinusoid, sampled at its quarters
Wave == <<0, 1, 0, -1>>

\* the input signal: amp * wave(time) + gain * x
input_value(src, data) == <<src.amp * Wave[(data.time % 4) + 1] + src.gain * data.state[1]>>

Sources == { [amp |-> a, gain |-> g] : a \in 1..2, g \in 0..1 }
Clocks == { [start |-> c, period |-> p] : c \in 0..1, p \in 2..3 }
HoldConditions == { {}, {<<5>>} }

\* ZeroOrderHold.__init__ on a system: output is a State without derivative
ZeroOrderHold(sys, src, clock, shape, ic) ==
    LET st == State(sys, "None", shape, ic)
    IN  [block  |-> [event_input |-> clock, input |-> src, output |-> st.self],
         system |-> st.system]

\* SystemState.set_state_value: the lines of the state are overwritten
set_state_value(data, st, value) ==
    [data EXCEPT !.state = [k \in DOMAIN data.state |->
                               IF (k - 1) \in state_slice(st)
                               THEN value[k - st.state_index]
                               ELSE data.state[k]]]

\* State.set_value
set_value(st, data, value) == set_state_value(data, st, value)

\* a listener that leaves the state as it is
update_state_skip(block, data) == data

\* ZeroOrderHold.update_state
update_state(block, data) == set_value(block.output, data, input_value(block.input, data))

\* the initial state vector of a system: the initial conditions in line order
RECURSIVE initial_vector(_, _)
initial_vector(sys, n) ==
    IF n = 0 THEN << >>
    ELSE initial_vector(sys, n - 1) \o sys.states[n].initial_condition

\* the derivative of line k (1-based) of the state vector: a state without
\* derivative function contributes zero
line_derivative(sys, k) ==
    LET st == CHOOSE c \in { sys.states[j] : j \in 1..Len(sys.states) } :
                  (k - 1) \in state_slice(c)
    IN  IF st.derivative_function = "None" THEN 0 ELSE 1

\* the clock ticks at start, start + period, ...
IsTick(clock, t) == t >= clock.start /\ (t - clock.start) % clock.period = 0

InitHold ==
    /\ \E src \in Sources, clock \in Clocks, ic \in HoldConditions :
         LET sysx == State(EmptySystem, "f", << >>, {}).system
             zoh  == ZeroOrderHold(sysx, src, clock, <<1>>, ic)
         IN  hold = [system  |-> zoh.system,
                     block   |-> zoh.block,
                     time    |-> 0,
                     state   |-> initial_vector(zoh.system, Len(zoh.system.states)),
                     ticks   |-> 0,
                     sampled |-> [time |-> -1, state |-> << >>]]
    /\ evaluation = {}
    /\ model = {}
    /\ SimIdle

\* a tick of the clock at the current time has not been handled
TickDue == IsTick(hold.block.event_input, hold.time) /\ hold.sampled.time # hold.time

\* the clock ticks: the listener registered by the block is run
HoldTick ==
    /\ TickDue
    /\ LET data == [time |-> hold.time, state |-> hold.state]
       IN  hold' = [hold EXCEPT !.state = update_state(hold.block, data).state,
                                !.ticks = @ + 1,
                                !.sampled = data]
    /\ UNCHANGED <<evaluation, model>>
    /\ UNCHANGED simVars

\* continuous integration over one tick of time
HoldAdvance ==
    /\ ~TickDue
    /\ hold.time < MaxHoldT
    /\ hold' = [hold EXCEPT !.time = @ + 1,
                            !.state = [k \in DOMAIN hold.state |->
                                          hold.state[k] + line_derivative(hold.system, k)]]
    /\ UNCHANGED <<evaluation, model>>
    /\ UNCHANGED simVars

NextHold == HoldTick \/ HoldAdvance

SpecHold == InitHold /\ [][NextHold]_vars

(***************************************************************************)
(* Properties.                                                             *)
(***************************************************************************)
\* the event indices flagged in row i (1-based) of the result
Flagged(res, i) == { e \in DOMAIN result_events(res)[i] : result_events(res)[i][e] }

\* the last step() call processed an event
EventStep == last.kind = "event"

\* the (eventidx, tc) pair of the last step with the smallest tc, and among
\* those the smallest eventidx
Earliest(tcross) ==
    CHOOSE k \in 1..Len(tcross) :
        \A j \in 1..Len(tcross) :
            \/ tcross[k][2] < tcross[j][2]
            \/ tcross[k][2] = tcross[j][2] /\ tcross[k][1] <= tcross[j][1]

\* the last step appended exactly one sample, the one of the candidate
\* with the smallest located crossing time and among those the lowest event
\* index, flagged with that event only, and processed that event only
EarliestRecorded ==
    LET n == result.current_idx
        e == last.tcross[Earliest(last.tcross)]
    IN  /\ n = last.before.current_idx + 1
        /\ result_t(result)[n] = e[2]
        /\ Flagged(result, n) = {e[1]}
        /\ last.event = {e[1]}
        /\ Len(last.updates) = 1
        /\ \A i \in 1..(n - 1) :
               /\ result_t(result)[i] = result_t(last.before)[i]
               /\ Flagged(result, i) = Flagged(last.before, i)

C2_IntegratorFailure ==
    last.kind = "failed" =>
        /\ ret.kind = "returned"
        /\ ret.value \in Messages
        /\ ret.value = integrator.message
        /\ ~running(integrator)
        /\ integrator.status = "failed"
        /\ result = last.before

\* C2 witness: a failed step after samples beyond the initial one were recorded
C2_Witness ==
    /\ last.kind = "failed"
    /\ result.current_idx >= 3

\* C3: a root-finder failure during step() is returned as a failure message
\* and terminates the run; it is never raised out of step() or run().
C3_RootfinderFailureReturned ==
    last.kind = "rootfail" =>
        /\ ret.kind = "returned"
        /\ ret.value # None
        /\ ~running(integrator)
        /\ run_ret.kind # "raised"

\* whether every entry of a sequence of step() outcomes is "returned None"
AllNone(trace) == \A k \in 1..Len(trace) : trace[k] = Returned(None)

\* C4: run() calls step() while the simulator is running, returns the first
\* message a step returns without stepping further, and returns None only
\* when no step returned a message and the simulator is not running.
C4_RunReturnsFirstMessage ==
    /\ mode = "run" => AllNone(run_trace)
    /\ (run_ret.kind = "returned" /\ run_ret.value # None) =>
          /\ Len(run_trace) >= 1
          /\ run_trace[Len(run_trace)] = Returned(run_ret.value)
          /\ AllNone(SubSeq(run_trace, 1, Len(run_trace) - 1))
    /\ run_ret = Returned(None) =>
          /\ AllNone(run_trace)
          /\ ~running(integrator)

\* C4 witness: run() returned a message after at least one successful step
C4_Witness ==
    /\ run_ret.kind = "returned"
    /\ run_ret.value # None
    /\ Len(run_trace) >= 2

\* C5: whenever run() has returned None the current time is tbound, and no
\* recorded sample and no integrator start time lies beyond tbound.
C5_StopsAtBoundary ==
    /\ run_ret = Returned(None) => integrator.t = tbound
    /\ \A i \in 1..result.current_idx : result_t(result)[i] <= tbound
    /\ integrator.t0 <= tbound

\* the flags row that appending a row with the given event leaves behind
FlagsOf(sys, event) == [e \in 0..(sys.num_events - 1) |-> e \in event]

\* C6: for any sequence of append calls, also ones that make extend_space
\* grow the buffers, every appended row (time, state, output, event flags)
\* is read back unchanged and in the order appended.
C6_RowsPreserved ==
    \A i \in 1..Len(log) :
        /\ i <= Len(result_t(result))
        /\ result_t(result)[i] = log[i].t
        /\ result_state(result)[i] = log[i].state
        /\ result_output(result)[i] = log[i].output
        /\ result_events(result)[i] = FlagsOf(system, log[i].event)

\* C6 witness: the buffers were grown twice and a flagged row lies in the
\* initial block
C6_Witness ==
    /\ Len(log) > INITIAL_RESULT_SIZE + RESULT_SIZE_EXTENSION
    /\ Len(result._t) = INITIAL_RESULT_SIZE + 2 * RESULT_SIZE_EXTENSION
    /\ \E i \in 1..INITIAL_RESULT_SIZE : log[i].event # {}

\* C7: after n append calls each of the accessors t, state, output and
\* events returns exactly n rows, none of them unwritten; the four buffers
\* have the same number of rows and current_idx does not exceed it.
C7_AccessorsReturnPrefix ==
    /\ Len(result_t(result)) = Len(log)
    /\ Len(result_state(result)) = Len(log)
    /\ Len(result_output(result)) = Len(log)
    /\ Len(result_events(result)) = Len(log)
    /\ \A i \in 1..Len(result_t(result)) : result_t(result)[i] \notin Garbage
    /\ \A i \in 1..Len(result_state(result)) : result_state(result)[i] \notin Garbage
    /\ \A i \in 1..Len(result_output(result)) : result_output(result)[i] \notin Garbage
    /\ Len(result._state) = Len(result._t)
    /\ Len(result._output) = Len(result._t)
    /\ Len(result._events) = Len(result._t)
    /\ result.current_idx <= Len(result._t)

\* C7 witness: after a growth, with unwritten rows behind the appended ones
C7_Witness ==
    /\ Len(log) > INITIAL_RESULT_SIZE
    /\ result.current_idx < Len(result._t)
    /\ result._t[result.current_idx + 1] \in Garbage

\* the initial state the constructor was asked for
RequestedInitialState ==
    IF initial_condition = {} THEN system.initial_condition
    ELSE CHOOSE v \in initial_condition : TRUE

\* C8: right after construction the result store holds exactly one sample:
\* the start time, the initial state (the explicit initial_condition if
\* given, else the system's), the outputs there, and no event flag.
C8_InitialSample ==
    last.kind = "nocall" =>
        /\ result.current_idx = 1
        /\ result_t(result) = << integrator.t0 >>
        /\ result_state(result) = << RequestedInitialState >>
        /\ result_output(result) =
              << output_function(system, integrator.t0, RequestedInitialState) >>
        /\ Flagged(result, 1) = {}
        /\ integrator.t = integrator.t0
        /\ integrator.y = RequestedInitialState

\* C8 witness: a simulator constructed with an explicit initial condition
\* that differs from the declared one, before any step
C8_Witness ==
    /\ last.kind = "nocall"
    /\ initial_condition # {}
    /\ RequestedInitialState # system.initial_condition
    /\ result.current_idx = 1

\* C9: every candidate's crossing time is located with the root-finder and
\* the options (tolerance) configured at construction.
C9_ConfiguredRootfinder ==
    \A u \in last.rf_used :
        /\ u.constructor = rootfinder_constructor
        /\ u.xtol = rootfinder_options.xtol

\* C10: for a fixed snapshot (t, x) the output is evaluated by invoking the
\* user function at most once: within one step() the output function is
\* not invoked twice for the same snapshot.
C10_OutputEvaluatedOnce ==
    \A i, j \in 1..Len(calls) : calls[i] = calls[j] => i = j

(***************************************************************************)
(* Properties of the Evaluator.                                            *)
(***************************************************************************)
\* the signals that the functions of the signals in S read
Reads(net, S) ==
    { d.id : d \in { r \in UNION { { net.signals[i].reads[k] : k \in 1..Len(net.signals[i].reads) } : i \in S } :
                     r.kind = "signal" } }

\* the signals read, directly or through other signals, in at most n levels
RECURSIVE ReadsWithin(_, _, _)
ReadsWithin(net, S, n) ==
    IF n = 0 THEN {} ELSE Reads(net, S) \cup ReadsWithin(net, Reads(net, S), n - 1)

\* signal i depends on itself with no state read in between
SelfDependent(net, i) == i \in ReadsWithin(net, {i}, Len(net.signals))

\* signal i needs the value of a signal that depends on itself
NeedsLoop(net, i) ==
    \E j \in {i} \cup ReadsWithin(net, {i}, Len(net.signals)) : SelfDependent(net, j)

\* the value of signal i when no loop is in the way: base + time + what it reads
RECURSIVE ValueOf(_, _)
ValueOf(ev, i) ==
    LET sig == ev.net.signals[i]
        read(d) == IF d.kind = "state"
                   THEN ev.state[ev.net.states[d.id].state_index + 1]
                   ELSE ValueOf(ev, d.id)
        sum[k \in 0..Len(sig.reads)] == IF k = 0 THEN 0 ELSE sum[k - 1] + read(sig.reads[k])
    IN  sig.base + ev.time + sum[Len(sig.reads)]

\* a top-level value_of has ended
EvalDone == evaluation.target # 0 /\ evaluation.stack = << >>

\* C11: evaluating a signal that depends on itself through signals only
\* raises AlgebraicLoopError on every snapshot; a signal with no such loop
\* in what it needs, be it that the chain passes through a state fed back
\* from the signal, resolves to the value built from the snapshot's state
\* vector.
C11_AlgebraicLoop ==
    EvalDone =>
        LET net == evaluation.net
            i == evaluation.target
        IN  /\ SelfDependent(net, i) => evaluation.outcome = Raised("AlgebraicLoopError")
            /\ ~NeedsLoop(net, i) => evaluation.outcome = Returned(ValueOf(evaluation, i))

\* a loop was raised for a signal depending on itself, on a snapshot with a
\* nonzero state
C11_Witness ==
    /\ EvalDone
    /\ SelfDependent(evaluation.net, evaluation.target)
    /\ evaluation.outcome = Raised("AlgebraicLoopError")
    /\ \E k \in DOMAIN evaluation.state : evaluation.state[k] > 0

(***************************************************************************)
(* Properties of the states of a System.                                   *)
(***************************************************************************)
\* the slices of the states are pairwise disjoint and cover [0, num_states)
SlicesPartition ==
    /\ \A j, k \in 1..Len(model.states) :
         j # k => state_slice(model.states[j]) \cap state_slice(model.states[k]) = {}
    /\ UNION { state_slice(model.states[k]) : k \in 1..Len(model.states) }
         = 0 .. (model.num_states - 1)

\* every state keeps its state_index
IndexKept ==
    \A k \in 1..Len(model.states) :
        /\ k <= Len(model'.states)
        /\ model'.states[k].state_index = model.states[k].state_index

\* C12: after any sequence of State creations on one System the
\* state_slice ranges are pairwise disjoint and together cover exactly
\* [0, num_states), and no step changes the state_index of a state
\* created before.
C12_StateSlices == [](SlicesPartition) /\ [][IndexKept]_vars

\* three states, one of them of several lines, the last one not at line 0
C12_Witness ==
    /\ Len(model.states) >= 3
    /\ \E k \in 1..Len(model.states) : model.states[k].size > 1
    /\ model.states[1].size > 1
    /\ model.states[Len(model.states)].state_index > model.states[1].size

(***************************************************************************)
(* Properties of ZeroOrderHold.                                            *)
(***************************************************************************)
\* the lines of the hold block's output state in the current state vector
HoldOutput ==
    [k \in 1..hold.block.output.size |-> hold.state[hold.block.output.state_index + k]]

\* C13: once the clock has ticked the output state of a ZeroOrderHold is
\* the value the input had at the last tick, so it is that value after the
\* tick and constant until the next one; before the first tick it is the
\* initial condition.  No tick of the clock is passed over.
C13_ZeroOrderHold ==
    /\ hold.ticks = 0 => HoldOutput = hold.block.output.initial_condition
    /\ hold.ticks > 0 =>
         /\ HoldOutput = input_value(hold.block.input, hold.sampled)
         /\ IsTick(hold.block.event_input, hold.sampled.time)
    /\ \A t \in 0..hold.time :
         IsTick(hold.block.event_input, t) /\ t > hold.sampled.time => t = hold.time /\ TickDue

\* two ticks back the input was sampled, time has moved on since and the
\* input is now something else than the output held
C13_Witness ==
    /\ hold.ticks >= 2
    /\ hold.time > hold.sampled.time
    /\ input_value(hold.block.input, [time |-> hold.time, state |-> hold.state]) # HoldOutput
    /\ HoldOutput # hold.block.output.initial_condition

(***************************************************************************)
(* Properties of the restart after an event.                               *)
(***************************************************************************)
\* the state the dense output of the last integrator step gives at time t
InterpolatedAt(t) == last.y_old + system.rate * (t - last.last_t)

\* the integrator is a new one, made for the time xtol/2 after the event
\* sample just recorded, the state the update function returns there, and
\* the simulator's tbound
RestartedAfterEvent ==
    LET t_event == result_t(result)[result.current_idx]
        next_t == t_event + rootfinder_options.xtol \div 2
        next_state == InterpolatedAt(next_t)
        new_state == update_state_function(system, next_t, next_state,
                                           output_function(system, next_t, next_state))
    IN  integrator = integrator_constructor(system, next_t, new_state, tbound)

\* a step without event goes on with the integrator it found
IntegratorKept ==
    (last'.kind = "noevent" /\ result' # result) =>
        /\ integrator'.t0 = integrator.t0
        /\ integrator'.t_bound = integrator.t_bound
        /\ integrator'.direction = integrator.direction
        /\ integrator'.t_old = integrator.t
        /\ integrator'.y_old = integrator.y

\* C15: after an event step the integrator is a new instance seeded at
\* t_event + xtol/2 (xtol the configured root-finder tolerance) with the
\* state returned by the state-update function and the same end time
\* tbound; a step without event keeps its integrator instance, which goes
\* on from where it was.
C15_RestartAfterEvent == [](EventStep => RestartedAfterEvent) /\ [][IntegratorKept]_vars

\* an event step whose update function changed the state, restarted before
\* tbound
C15_Witness ==
    /\ EventStep
    /\ integrator.t0 < tbound
    /\ integrator.t0 > result_t(result)[result.current_idx]
    /\ integrator.y # InterpolatedAt(integrator.t0)

\* C16: on an event step one update function is invoked, once, with the
\* time, interpolated state and outputs at t_event + xtol/2, and it is the
\* update function paired with the selected event: the new state is what
\* that function returns, the updates of the other events are not applied.
C16_PairedUpdateOnly ==
    EventStep =>
        LET eventidx == CHOOSE e \in last.event : TRUE
            next_t == result_t(result)[result.current_idx] + rootfinder_options.xtol \div 2
            next_state == InterpolatedAt(next_t)
            next_outputs == output_function(system, next_t, next_state)
        IN  /\ last.updates = << [t |-> next_t, state |-> next_state, outputs |-> next_outputs] >>
            /\ integrator.y = apply_update(event_update(system, eventidx),
                                           next_t, next_state, next_outputs)

(***************************************************************************)
(* Properties of the detection of events.                                  *)
(***************************************************************************)
\* the last step() call advanced the integrator
Advanced == last.kind \in {"noevent", "event", "rootfail"}

\* the event values at time t with state y
EventsAt(t, y) == event_function(system, t, y, output_function(system, t, y))

\* C17: the candidate crossings of a step are exactly the event indices i
\* with sign(e_prev[i]) # sign(e_new[i]), each once, e_prev being the event
\* values at the time and state before the integrator step and e_new those
\* after it, and sign being -1, 0 or +1.
C17_Candidates ==
    Advanced =>
        LET e_prev == EventsAt(last.last_t, last.y_old)
            e_new == EventsAt(last.t, last.y)
        IN  /\ { last.cands[k] : k \in 1..Len(last.cands) }
                 = { i \in 0..(system.num_events - 1) : sign(e_prev[i]) # sign(e_new[i]) }
            /\ \A j, k \in 1..Len(last.cands) : j # k => last.cands[j] # last.cands[k]

\* a step with a candidate that started at exactly zero, and an event that
\* is no candidate though its value had the other sign inside the step
C17_Witness ==
    /\ Advanced
    /\ \E k \in 1..Len(last.cands) : EventsAt(last.last_t, last.y_old)[last.cands[k]] = 0
    /\ \E i \in 0..(system.num_events - 1) :
         /\ \A k \in 1..Len(last.cands) : last.cands[k] # i
         /\ \E t \in (last.last_t + 1)..(last.t - 1) :
              sign(EventsAt(t, InterpolatedAt(t))[i]) = -sign(EventsAt(last.t, last.y)[i])
         /\ EventsAt(last.t, last.y)[i] # 0

(***************************************************************************)
(* Properties of the samples recorded.                                     *)
(***************************************************************************)
\* C18: every recorded sample has at most one event indicator set, in
\* storage added by extend_space as in the first block: the sample of an
\* event step has the flag of the triggered event and no other, the initial
\* sample and the samples of steps without event have no flag.
C18_OneFlagPerSample ==
    LET n == result.current_idx
    IN  /\ \A i \in 1..n :
              /\ Cardinality(Flagged(result, i)) <= 1
              /\ Flagged(result, i) = log[i].event
        /\ Flagged(result, 1) = {}
        /\ EventStep => Flagged(result, n) = last.event /\ Cardinality(last.event) = 1
        /\ last.kind = "noevent" => Flagged(result, n) = {}

\* rows beyond the first block of storage, one with a flag and one without
C18_Witness ==
    /\ Len(result._t) > INITIAL_RESULT_SIZE
    /\ \E i \in (INITIAL_RESULT_SIZE + 1)..result.current_idx : Flagged(result, i) # {}
    /\ \E i \in (INITIAL_RESULT_SIZE + 1)..result.current_idx : Flagged(result, i) = {}

\* C19: a step() call that returns None appends exactly one sample: the
\* integrator's new (t, x, outputs(t, x)) when there is no candidate, the
\* event sample at the located crossing time and nothing for the end of
\* the step when there are candidates; a call that returns a message or
\* raises appends none.  So the number of recorded samples is 1 plus the
\* number of step() calls that returned None.
C19_OneSamplePerStep ==
    LET n == result.current_idx
        appended(t, x) ==
            /\ n = last.before.current_idx + 1
            /\ result_t(result)[n] = t
            /\ result_state(result)[n] = x
            /\ result_output(result)[n] = output_function(system, t, x)
            /\ \A i \in 1..(n - 1) : result_t(result)[i] = result_t(last.before)[i]
    IN  /\ n = 1 + steps_none
        /\ ret = Returned(None) <=> last.kind \in {"noevent", "event"}
        /\ last.kind = "noevent" => appended(last.t, last.y)
        /\ last.kind = "event" =>
              appended(last.tcross[Earliest(last.tcross)][2],
                       InterpolatedAt(last.tcross[Earliest(last.tcross)][2]))
        /\ last.kind \in {"notrunning", "failed", "rootfail"} => result = last.before

\* the third sample of a run is an event sample taken before the end of
\* the step
C19_Witness ==
    /\ EventStep
    /\ steps_none = 2
    /\ result.current_idx = 3
    /\ result_t(result)[3] < last.t
    /\ result_t(result)[3] > last.last_t

\* the zero crossings of event i on the dense output of the last step that
\* lie within the configured xtol of the recorded event time
CrossingsNearEvent(i) ==
    LET lo == Min(last.last_t, last.t)
        hi == Max(last.last_t, last.t)
        F == [t \in lo..hi |-> EventsAt(t, InterpolatedAt(t))[i]]
    IN  { r \in Crossings(F, lo, hi) :
            Abs(result_t(result)[result.current_idx] - r) <= rootfinder_options.xtol }

\* the update function left the sign of event i at the restart time as the
\* dense output has it there
SignKeptByUpdate(i) ==
    sign(EventsAt(integrator.t0, integrator.y)[i])
        = sign(EventsAt(integrator.t0, InterpolatedAt(integrator.t0))[i])

\* the step() call after an event step does not record the event just
\* processed again for a crossing it was recorded for
NotFoundAgain ==
    LET i == CHOOSE e \in last.event : TRUE
    IN  ( /\ EventStep
          /\ CrossingsNearEvent(i) # {}
          /\ SignKeptByUpdate(i)
          /\ result' # result
          /\ last'.kind = "event" )
        => ~ ( /\ last'.event = {i}
               /\ \E r \in CrossingsNearEvent(i) :
                     Min(last'.last_t, last'.t) <= r /\ r <= Max(last'.last_t, last'.t) )

\* C20: after an event with index i was processed and the integrator
\* restarted at t_event + xtol/2, the next step() does not find event i
\* again for the same zero crossing, given that the root-finder's time is
\* within xtol of the true crossing and the update function does not
\* change the sign of event i.
C20_NotFoundAgain == [][NotFoundAgain]_vars

(***************************************************************************)
(* Properties of the times of a run.                                       *)
(***************************************************************************)
\* time t lies in the interval of the last integrator step
WithinStep(t) == Min(last.last_t, last.t) <= t /\ t <= Max(last.last_t, last.t)

\* C21: every time the dense output is evaluated at during an event step
\* lies within the interval [t_prev, t] of the step just completed: the
\* ends of the root-finder's bracket, the located crossing times, the
\* crossing time chosen and the restart time t_event + xtol/2.
C21_InterpolatorWithinStep ==
    EventStep =>
        /\ \A k \in 1..Len(last.tcross) : WithinStep(last.tcross[k][2])
        /\ WithinStep(result_t(result)[result.current_idx])
        /\ \A k \in 1..Len(last.updates) : WithinStep(last.updates[k].t)
        /\ WithinStep(integrator.t0)

\* C22: in a forward simulation (t0 <= tbound) the recorded sample times
\* are non-decreasing in the order recorded, and the simulator's current
\* time never decreases from one step to the next, event steps and
\* restarts of the integrator included.
C22_TimeMonotonic ==
    /\ [](\A i, j \in 1..result.current_idx :
              i <= j => result_t(result)[i] <= result_t(result)[j])
    /\ [][integrator'.t >= integrator.t]_vars

\* run() is in its loop and stays in it
RunGoesOn == mode = "run" /\ mode' = "run"

\* C23: run() eventually returns when every integrator step fails or
\* advances time by at least one tick and finishes at tbound: no step() of
\* its loop, event steps and restarts included, leaves the simulator
\* running with the very integrator the step began with, from which the
\* loop could go round forever.
C23_RunTerminates == [][RunGoesOn => integrator' # integrator]_vars

====
